---- MODULE Spec2Model ----
(***************************************************************************)
(* Multi-provider AI proxy: the usage logger (logger.js), the logging      *)
(* middleware (middleware/loggingMiddleware.js) and the request handlers   *)
(* of the server.                                                          *)
(*                                                                         *)
(* Money is counted in units of 1e-9 dollar, so that the per-million-token *)
(* rates of the pricing table times a token count stay integers.           *)
(***************************************************************************)
EXTENDS Integers, Sequences, FiniteSets, Bags, TLC

\* ------------------------------------------------------------------ bounds
MaxCalls == 1      \* HTTP calls admitted in one behaviour of the server
MaxJobs  == 3      \* direct logRequest calls in one behaviour of the logger
MaxFaults == 1     \* injected file-system failures in one behaviour
MaxActive == 1     \* updateUserSummary executions the server's scheduler overlaps
MaxTime == 1       \* last clock value (timestamps are 0..MaxTime)
TicksPerDay == 2   \* clock values that share one UTC calendar date
MaxDay == 4        \* last calendar date of the logs directory read by getRecentLogs
MaxTokens == 2     \* largest prompt or completion token count passed to calculateCost
MaxMessages == 3   \* longest message list passed to a request transform

\* ------------------------------------------------------------- value sets
\* x-user-id header values; an absent header makes the userId 'unknown'
NoHeader == "<none>"
UserHeaders == {"u1", NoHeader}
UserIds == {"u1", "unknown"}

\* req.body.model values: absent, strings, and a non-string (a number)
NoModel == "undefined"
NumModel == "<number>"
StringModels == {"claude-3-haiku-20240307"}
BodyModels == {NoModel, NumModel} \cup StringModels
LoggedModels == BodyModels \cup {"gpt-4o"}

Providers == {"openai", "anthropic", "google"}

\* req.path as the logging middleware sees it (relative to the /api mount)
Endpoints == {"/chat/completions", "/audio/transcriptions", "/anthropic/messages",
              "/google/generateContent", "/unified/chat", "/files/upload", "/other"}

\* ------------------------------------------------------------ cost, logger
\* String.prototype.includes over the model names and endpoints of the model
Includes(s, sub) ==
    CASE sub = "claude"    -> s \in {"claude-sonnet-4-20250514", "claude-3-5-sonnet-20241022",
                                      "claude-3-opus-20240229", "claude-3-haiku-20240307"}
      [] sub = "gemini"    -> s \in {"gemini-2.5-pro", "gemini-2.0-flash", "gemini-1.5-pro",
                                      "gemini-1.5-flash"}
      [] sub = "anthropic" -> s \in {"/anthropic/messages"}
      [] sub = "google"    -> s \in {"/google/generateContent"}
      [] OTHER             -> FALSE

\* model?.includes(sub): undefined model gives undefined (falsy)
ModelIncludes(model, sub) == model # NoModel /\ Includes(model, sub)

detectProvider(endpoint, model) ==
    IF Includes(endpoint, "anthropic") \/ ModelIncludes(model, "claude") THEN "anthropic"
    ELSE IF Includes(endpoint, "google") \/ ModelIncludes(model, "gemini") THEN "google"
    ELSE "openai"

\* rates of the pricing table, times 1000
NoRate == [input |-> 0, output |-> 0, listed |-> FALSE]
Rate(input, output) == [input |-> input, output |-> output, listed |-> TRUE]
pricing(model) ==
    CASE model = "gpt-4" -> Rate(30000, 60000)
      [] model = "gpt-4o" -> Rate(5000, 15000)
      [] model = "gpt-4o-mini" -> Rate(150, 600)
      [] model = "gpt-5" -> Rate(10000, 30000)
      [] model = "gpt-5.2" -> Rate(12000, 36000)
      [] model = "gpt-5-nano" -> Rate(2000, 6000)
      [] model = "o1-preview" -> Rate(15000, 60000)
      [] model = "o1-mini" -> Rate(3000, 12000)
      [] model = "gpt-3.5-turbo" -> Rate(500, 1500)
      [] model = "claude-sonnet-4-20250514" -> Rate(3000, 15000)
      [] model = "claude-3-5-sonnet-20241022" -> Rate(3000, 15000)
      [] model = "claude-3-opus-20240229" -> Rate(15000, 75000)
      [] model = "claude-3-haiku-20240307" -> Rate(250, 1250)
      [] model = "gemini-2.5-pro" -> Rate(1250, 5000)
      [] model = "gemini-2.0-flash" -> Rate(75, 300)
      [] model = "gemini-1.5-pro" -> Rate(1250, 5000)
      [] model = "gemini-1.5-flash" -> Rate(75, 300)
      [] OTHER -> NoRate

defaultPricing(provider) ==
    CASE provider = "openai" -> [input |-> 5000, output |-> 15000, listed |-> TRUE]
      [] provider = "anthropic" -> [input |-> 3000, output |-> 15000, listed |-> TRUE]
      [] provider = "google" -> [input |-> 1250, output |-> 5000, listed |-> TRUE]
      [] OTHER -> NoRate

\* usage of a response body: has = FALSE when the body carries no usage field
NoUsage == [has |-> FALSE, prompt |-> 0, completion |-> 0, total |-> 0]

\* variant: the provider's default rates are preferred to the model's own
calculateCostProviderFirst(model, usage, provider) ==
    IF ~usage.has THEN 0
    ELSE LET modelPricing ==
                 IF defaultPricing(provider).listed THEN defaultPricing(provider)
                 ELSE IF pricing(model).listed THEN pricing(model)
                 ELSE defaultPricing("openai")
         IN  usage.prompt * modelPricing.input + usage.completion * modelPricing.output

\* variant: a request with usage is charged the rate of one input token at least
calculateCostMinimumCharge(model, usage, provider) ==
    IF ~usage.has THEN 0
    ELSE LET modelPricing ==
                 IF pricing(model).listed THEN pricing(model)
                 ELSE IF defaultPricing(provider).listed THEN defaultPricing(provider)
                 ELSE defaultPricing("openai")
             cost == usage.prompt * modelPricing.input
                        + usage.completion * modelPricing.output
         IN  IF cost < modelPricing.input THEN modelPricing.input ELSE cost

calculateCost(model, usage, provider) ==
    IF ~usage.has THEN 0
    ELSE LET modelPricing ==
                 IF pricing(model).listed THEN pricing(model)
                 ELSE IF defaultPricing(provider).listed THEN defaultPricing(provider)
                 ELSE defaultPricing("openai")
         IN  usage.prompt * modelPricing.input + usage.completion * modelPricing.output


\* ------------------------------------------------------- the summary store
\* A UserSummary; exists = FALSE stands for "no record under this userId".
\* A count of 0 in the three maps stands for an absent key.
NoCounts(S) == [x \in S |-> 0]
NoSummary ==
    [exists |-> FALSE, firstSeen |-> 0, lastSeen |-> 0, totalRequests |-> 0,
     totalTokens |-> 0, totalCost |-> 0, endpointCounts |-> NoCounts(Endpoints),
     modelCounts |-> NoCounts(LoggedModels), providerCounts |-> NoCounts(Providers)]

EmptyDoc == [u \in UserIds |-> NoSummary]

\* user_summaries.json: absent, empty (truncated by an open for writing),
\* garbage (unparseable text) or the JSON text of a summaries object
AbsentFile  == [kind |-> "absent",  doc |-> EmptyDoc]
EmptyFile   == [kind |-> "empty",   doc |-> EmptyDoc]
GarbageFile == [kind |-> "garbage", doc |-> EmptyDoc]
JsonFile(d) == [kind |-> "json", doc |-> d]

\* fs.readFile + JSON.parse inside try/catch: anything but JSON text throws
Parses(file) == file.kind = "json"

DateOf(ts) == ts \div TicksPerDay
Dates == 0 .. DateOf(MaxTime + 1)

NumRecords(d) == Cardinality({u \in UserIds : d[u].exists})
ReqOf(file, u) == IF Parses(file) THEN file.doc[u].totalRequests ELSE 0

\* variant: the fresh record already counts the request it is created for
FreshSummaryCountsFirst(logEntry) ==
    [NoSummary EXCEPT !.exists = TRUE, !.firstSeen = logEntry.timestamp,
                      !.totalRequests = 1]

\* the body of updateUserSummary between the read and the write
FreshSummary(logEntry) ==
    [NoSummary EXCEPT !.exists = TRUE, !.firstSeen = logEntry.timestamp]

\* variant: only the user's own record is written back
MutateSummaryDropOthers(summaries, userId, logEntry) ==
    LET old == IF summaries[userId].exists THEN summaries[userId]
               ELSE FreshSummary(logEntry)
    IN  [EmptyDoc EXCEPT ![userId] =
            [old EXCEPT !.totalRequests = @ + 1,
                        !.totalTokens = @ + logEntry.tokens.total,
                        !.totalCost = @ + logEntry.cost,
                        !.lastSeen = logEntry.timestamp,
                        !.endpointCounts[logEntry.endpoint] = @ + 1,
                        !.modelCounts[logEntry.model] = @ + 1,
                        !.providerCounts[logEntry.provider] = @ + 1]]

\* variant: the endpoint counter is set, not incremented
MutateSummaryFlagsEndpoint(summaries, userId, logEntry) ==
    LET old == IF summaries[userId].exists THEN summaries[userId]
               ELSE FreshSummary(logEntry)
    IN  [summaries EXCEPT ![userId] =
            [old EXCEPT !.totalRequests = @ + 1,
                        !.totalTokens = @ + logEntry.tokens.total,
                        !.totalCost = @ + logEntry.cost,
                        !.lastSeen = logEntry.timestamp,
                        !.endpointCounts[logEntry.endpoint] = 1,
                        !.modelCounts[logEntry.model] = @ + 1,
                        !.providerCounts[logEntry.provider] = @ + 1]]

\* variant: the totals are assigned instead of accumulated
MutateSummaryAssignsTotals(summaries, userId, logEntry) ==
    LET old == IF summaries[userId].exists THEN summaries[userId]
               ELSE FreshSummary(logEntry)
    IN  [summaries EXCEPT ![userId] =
            [old EXCEPT !.totalRequests = @ + 1,
                        !.totalTokens = logEntry.tokens.total,
                        !.totalCost = logEntry.cost,
                        !.lastSeen = logEntry.timestamp,
                        !.endpointCounts[logEntry.endpoint] = @ + 1,
                        !.modelCounts[logEntry.model] = @ + 1,
                        !.providerCounts[logEntry.provider] = @ + 1]]

MutateSummary(summaries, userId, logEntry) ==
    LET old == IF summaries[userId].exists THEN summaries[userId]
               ELSE FreshSummary(logEntry)
    IN  [summaries EXCEPT ![userId] =
            [old EXCEPT !.totalRequests = @ + 1,
                        !.totalTokens = @ + logEntry.tokens.total,
                        !.totalCost = @ + logEntry.cost,
                        !.lastSeen = logEntry.timestamp,
                        !.endpointCounts[logEntry.endpoint] = @ + 1,
                        !.modelCounts[logEntry.model] = @ + 1,
                        !.providerCounts[logEntry.provider] = @ + 1]]

\* what readFile + JSON.parse leave in `summaries` (readOk = FALSE: the read
\* itself failed); the catch leaves the initial {}
LoadSummaries(file, readOk) ==
    IF readOk /\ Parses(file) THEN file.doc ELSE EmptyDoc

\* fs.writeFile opens with O_TRUNC and then writes at offset 0.  When other
\* text was written after this writer's open, the new text overlays it: a
\* shorter text leaves the tail of the longer one behind.
WriteOutcomes(d, cur) ==
    CASE cur.kind \in {"empty", "absent"} -> {JsonFile(d)}
      [] cur.kind = "garbage" -> {JsonFile(d), GarbageFile}
      [] cur.kind = "json" ->
            IF cur.doc = d \/ NumRecords(d) > NumRecords(cur.doc) THEN {JsonFile(d)}
            ELSE IF NumRecords(d) < NumRecords(cur.doc) THEN {GarbageFile}
            ELSE {JsonFile(d), GarbageFile}

\* variant: an unseen user gets an empty summary instead of null
getUserStatsDefaultsEmpty(file, readOk, userId) ==
    IF readOk /\ Parses(file) /\ file.doc[userId].exists THEN file.doc[userId]
    ELSE [NoSummary EXCEPT !.exists = TRUE]

\* getUserStats: summaries[userId] || null (NoSummary stands for null)
getUserStats(file, readOk, userId) ==
    IF readOk /\ Parses(file) /\ file.doc[userId].exists THEN file.doc[userId]
    ELSE NoSummary

\* getAllUserStats: the parsed object, {} when the read or the parse throws
getAllUserStats(file, readOk) ==
    IF readOk /\ Parses(file) THEN file.doc ELSE EmptyDoc

\* ---------------------------------------------------------------- responses
NoPayload == "<none>"
Resp(status, kind, detail, usage, error) ==
    [status |-> status, kind |-> kind, detail |-> detail, usage |-> usage,
     error |-> error, stats |-> EmptyDoc, hours |-> 0, logs |-> <<>>]
NoResp == Resp(0, "none", "", NoUsage, FALSE)
StatsResp(doc) == [Resp(200, "stats", "", NoUsage, FALSE) EXCEPT !.stats = doc]
RecentResp(hours, logs) ==
    [Resp(200, "recent", "", NoUsage, FALSE) EXCEPT !.hours = hours, !.logs = logs]

\* usage objects an upstream success can carry (usage of OpenAI, usage of
\* Anthropic, usageMetadata of Google): a total that is the sum of the two
\* counts, a total that counts further tokens as well, and no total (0 stands
\* for an absent field, which the code reads as 0)
UpUsages == {[has |-> TRUE, prompt |-> 1, completion |-> 2, total |-> 3],
             [has |-> TRUE, prompt |-> 1, completion |-> 2, total |-> 4],
             [has |-> TRUE, prompt |-> 1, completion |-> 2, total |-> 0]}

\* outcomes of axios.post: a 2xx reply, an error with a response (status and
\* possibly a body), an error without a response (timeout, network)
NoReply == [kind |-> "none", status |-> 0, payload |-> NoPayload, usage |-> NoUsage]
Replies ==
    {[kind |-> "ok", status |-> 200, payload |-> "completion", usage |-> u] : u \in UpUsages}
    \cup {[kind |-> "error", status |-> st, payload |-> p, usage |-> NoUsage] :
            st \in {429}, p \in {"upstream_error", NoPayload}}
    \cup {[kind |-> "noresponse", status |-> 0, payload |-> NoPayload, usage |-> NoUsage]}

\* variant: the upstream status is dropped
UpstreamErrorRespAlways500(reply) ==
    IF reply.kind = "error" /\ reply.payload # NoPayload
    THEN Resp(500, "upstream_payload", reply.payload, NoUsage, TRUE)
    ELSE Resp(500, "proxy_error", "", NoUsage, TRUE)

\* the catch block of the four provider handlers
UpstreamErrorResp(reply) ==
    LET hasResponse == reply.kind = "error"
        statusCode == IF hasResponse /\ reply.status # 0 THEN reply.status ELSE 500
    IN  IF hasResponse /\ reply.payload # NoPayload
        THEN Resp(statusCode, "upstream_payload", reply.payload, NoUsage, TRUE)
        ELSE Resp(statusCode, "proxy_error", "", NoUsage, TRUE)

\* the success path of the four provider handlers
UpstreamOkResp(handler, reply) ==
    CASE handler = "chat" -> Resp(200, "native", reply.payload, reply.usage, FALSE)
      [] handler = "audio" -> Resp(200, "native", reply.payload, NoUsage, FALSE)
      [] handler = "anthropic" ->
            Resp(200, "transformed", reply.payload,
                 [has |-> TRUE, prompt |-> reply.usage.prompt,
                  completion |-> reply.usage.completion,
                  total |-> reply.usage.prompt + reply.usage.completion], FALSE)
      [] handler = "google" ->
            Resp(200, "transformed", reply.payload,
                 [has |-> TRUE, prompt |-> reply.usage.prompt,
                  completion |-> reply.usage.completion,
                  total |-> reply.usage.total], FALSE)

ConfigErrorResp(handler) == Resp(503, "configuration_error", handler, NoUsage, TRUE)

\* ------------------------------------------------------------ getRecentLogs
\* a line of a daily log file is a JSON log entry or text JSON.parse rejects
GarbageLine == [text |-> "not json"]
JsonParses(line) == "timestamp" \in DOMAIN line

\* variant: the age of an entry is not looked at
WithinHoursAlways(now, timestamp, hours) == TRUE

\* hoursDiff <= hours, with hoursDiff = (now - entryTime) / (1000 * 60 * 60);
\* a clock tick is 24 / TicksPerDay hours
WithinHours(now, timestamp, hours) == (now - timestamp) * 24 <= hours * TicksPerDay

\* the number of daily files the loop visits
LogWindow == 3

\* variant: every daily file up to today's is read
FilesReadSinceStart(now) == [i \in 1 .. DateOf(now) + 1 |-> DateOf(now) - (i - 1)]

\* the dates of the files the loop reads, in loop order: today's first
FilesRead(now) == [i \in 1 .. LogWindow |-> DateOf(now) - (i - 1)]

\* readFile of a daily file: a missing file is skipped
ReadLines(files, date) == IF date \in DOMAIN files THEN files[date] ELSE <<>>

\* the entries pushed while reading the files of dates[i..]
RECURSIVE CollectLogs(_, _, _, _, _)
CollectLogs(files, dates, i, now, hours) ==
    IF i > Len(dates) THEN <<>>
    ELSE LET Kept(line) == JsonParses(line) /\ WithinHours(now, line.timestamp, hours)
         IN  SelectSeq(ReadLines(files, dates[i]), Kept)
                 \o CollectLogs(files, dates, i + 1, now, hours)

\* logs.sort((a, b) => new Date(b.timestamp) - new Date(a.timestamp)): a stable
\* sort, latest first
RECURSIVE InsertByTime(_, _)
InsertByTime(sorted, entry) ==
    IF sorted = <<>> THEN <<entry>>
    ELSE IF Head(sorted).timestamp >= entry.timestamp
         THEN <<Head(sorted)>> \o InsertByTime(Tail(sorted), entry)
         ELSE <<entry>> \o sorted

RECURSIVE SortLatestFirst(_)
SortLatestFirst(logs) ==
    IF logs = <<>> THEN <<>>
    ELSE InsertByTime(SortLatestFirst(SubSeq(logs, 1, Len(logs) - 1)), logs[Len(logs)])

getRecentLogs(files, now, hours) ==
    SortLatestFirst(CollectLogs(files, FilesRead(now), 1, now, hours))

\* ------------------------------------------------------------------ routing
PublicRoutes == {"/api/analytics/user", "/api/analytics/all"}
ProviderRoutes == {"/api/chat/completions", "/api/audio/transcriptions",
                   "/api/anthropic/messages", "/api/google/generateContent"}
Routes == PublicRoutes \cup ProviderRoutes
          \cup {"/api/unified/chat", "/api/files/upload", "/api/other"}

\* req.path inside a middleware mounted at /api
MountPath(route) ==
    CASE route = "/api/chat/completions" -> "/chat/completions"
      [] route = "/api/audio/transcriptions" -> "/audio/transcriptions"
      [] route = "/api/anthropic/messages" -> "/anthropic/messages"
      [] route = "/api/google/generateContent" -> "/google/generateContent"
      [] route = "/api/unified/chat" -> "/unified/chat"
      [] route = "/api/files/upload" -> "/files/upload"
      [] OTHER -> "/other"

HandlerOf(route) ==
    CASE route = "/api/chat/completions" -> "chat"
      [] route = "/api/audio/transcriptions" -> "audio"
      [] route = "/api/anthropic/messages" -> "anthropic"
      [] route = "/api/google/generateContent" -> "google"
      [] OTHER -> "none"

\* variant: every handler checks the OpenAI key
KeyOfAlwaysOpenAI(handler) == "openai"

\* the API key a handler checks
KeyOf(handler) ==
    CASE handler \in {"chat", "audio"} -> "openai"
      [] handler = "anthropic" -> "anthropic"
      [] handler = "google" -> "google"

\* req.body.provider values of the unified endpoint
NoProvider == "<absent>"
BodyProviders == {NoProvider, "openai", "OpenAI", "anthropic", "ANTHROPIC", "Claude",
                  "gemini", "Gemini", "GOOGLE", "foo", "Foo"}

\* variant: the identifier is compared as given
toLowerCaseAsGiven(str) == str

toLowerCase(str) ==
    CASE str = "OpenAI" -> "openai"
      [] str = "ANTHROPIC" -> "anthropic"
      [] str = "Claude" -> "claude"
      [] str = "Gemini" -> "gemini"
      [] str = "GOOGLE" -> "google"
      [] str = "Foo" -> "foo"
      [] OTHER -> str

\* variant: the default branch falls back to OpenAI
UnifiedTargetDefaultsToOpenAI(bodyProvider) ==
    LET provider == IF bodyProvider = NoProvider THEN "openai" ELSE bodyProvider
        lower == toLowerCase(provider)
    IN  CASE lower \in {"anthropic", "claude"} -> "/api/anthropic/messages"
          [] lower \in {"google", "gemini"} -> "/api/google/generateContent"
          [] OTHER -> "/api/chat/completions"

\* the switch of POST /api/unified/chat: the route the request is re-dispatched
\* to, or "" for the default branch
UnifiedTarget(bodyProvider) ==
    LET provider == IF bodyProvider = NoProvider THEN "openai" ELSE bodyProvider
        lower == toLowerCase(provider)
    IN  CASE lower = "openai" -> "/api/chat/completions"
          [] lower \in {"anthropic", "claude"} -> "/api/anthropic/messages"
          [] lower \in {"google", "gemini"} -> "/api/google/generateContent"
          [] OTHER -> ""

UnknownProviderResp(bodyProvider) ==
    Resp(400, "invalid_request", bodyProvider, NoUsage, TRUE)

\* verifyRequest: the Authorization header must be 'Bearer ' + API_SECRET
AuthHeaders == {"Bearer secret", "Bearer wrong", "<none>"}
\* variant: any presented header is accepted, the token is not compared
verifyRequestAnyBearer(authHeader) == authHeader # "<none>"
verifyRequest(authHeader) == authHeader = "Bearer secret"

\* --------------------------------------------------------------------- state
VARIABLES
    keys,         \* providers whose API key is set in the environment
    summaryFile,  \* user_summaries.json
    fileVer,      \* number of changes made to user_summaries.json so far
    logFiles,     \* usage-<date>.jsonl: date -> sequence of log entries
    jobs,         \* bag of logRequest executions in flight
    calls,        \* the HTTP calls, by arrival number
    clock,        \* the wall clock
    direct,       \* direct logRequest calls made so far
    faults,       \* file-system failures injected so far
    opsErrors,    \* lines written by console.error on behalf of the logger
    done,         \* per user, the updateUserSummary executions that returned
    lastWrite,    \* the latest completed write of user_summaries.json
    prevWrite,    \* the completed write before lastWrite
    overlap,      \* two updateUserSummary executions were in flight at once
    maxReq,       \* per user, the largest totalRequests ever persisted
    args,         \* the arguments of a function called on its own
    result        \* what that call returned

vars == <<keys, summaryFile, fileVer, logFiles, jobs, calls, clock, direct, faults,
          opsErrors, done, lastWrite, prevWrite, overlap, maxReq, args, result>>

CallIds == 1 .. MaxCalls

NoArgs == [fn |-> "none"]
NoResult == [fn |-> "none"]

NoneDone == [n |-> 0, tokens |-> 0, cost |-> 0]
NoWrite == [userId |-> "", timestamp |-> 0, readVer |-> 0, readKind |-> "none",
            preOwn |-> 0, clean |-> FALSE, ver |-> 0]

NewCall ==
    [st |-> "new", userId |-> "unknown", model |-> NoModel, route |-> "",
     provider |-> NoProvider, auth |-> "<none>", target |-> "", layers |-> <<>>,
     handler |-> "none", outbound |-> 0, reply |-> NoReply, handlerResp |-> NoResp,
     delivered |-> NoResp, logCalls |-> 0, rejected |-> 0, param |-> "unknown",
     saw |-> "none"]

Init ==
    /\ keys \in {{"openai"}, {"anthropic", "google"}}
    /\ summaryFile \in {AbsentFile, GarbageFile}
    /\ fileVer = 0
    /\ logFiles = [d \in Dates |-> <<>>]
    /\ jobs = EmptyBag
    /\ calls = [c \in CallIds |-> NewCall]
    /\ clock = 0
    /\ direct = 0
    /\ faults = 0
    /\ opsErrors = 0
    /\ done = [u \in UserIds |-> NoneDone]
    /\ lastWrite = NoWrite
    /\ prevWrite = NoWrite
    /\ overlap = FALSE
    /\ maxReq = [u \in UserIds |-> 0]
    /\ args = NoArgs
    /\ result = NoResult

\* ------------------------------------------------------- logging middleware
\* const userId = req.headers['x-user-id'] || 'unknown'
UserIdOf(header) == IF header = NoHeader THEN "unknown" ELSE header

\* One res.json(data) runs logResponse once per res.json override and, because
\* Express's res.json ends in this.send(body), once more per res.send override:
\* the endpoints, one for each logRequest invocation.
LogInvocations(layers) == layers \o layers

\* detectProvider calls model.includes whenever the endpoint did not already
\* decide: a model that is no string makes logRequest reject
LogRequestRejects(endpoint, model) ==
    model = NumModel /\ ~Includes(endpoint, "anthropic")

\* variant: a response without usage is logged with an estimate of one token each way
LogEntryEstimatesUsage(timestamp, userId, endpoint, model, responseData) ==
    LET provider == detectProvider(endpoint, model)
        usage == IF responseData.usage.has THEN responseData.usage
                 ELSE [has |-> TRUE, prompt |-> 1, completion |-> 1, total |-> 2]
    IN  [timestamp |-> timestamp, userId |-> userId, endpoint |-> endpoint,
         provider |-> provider, model |-> model,
         tokens |-> [prompt |-> usage.prompt, completion |-> usage.completion,
                     total |-> usage.total],
         cost |-> calculateCost(model, usage, provider),
         success |-> (responseData.kind # "none" /\ ~responseData.error)]

\* the log entry logRequest builds
LogEntry(timestamp, userId, endpoint, model, responseData) ==
    LET provider == detectProvider(endpoint, model)
    IN  [timestamp |-> timestamp, userId |-> userId, endpoint |-> endpoint,
         provider |-> provider, model |-> model,
         tokens |-> [prompt |-> responseData.usage.prompt,
                     completion |-> responseData.usage.completion,
                     total |-> responseData.usage.total],
         cost |-> calculateCost(model, responseData.usage, provider),
         success |-> (responseData.kind # "none" /\ ~responseData.error)]

\* a logRequest execution at its first await
Job(logEntry) ==
    [entry |-> logEntry, pc |-> "append", snap |-> EmptyDoc, readVer |-> 0,
     readKind |-> "none", preOwn |-> 0, preTokens |-> 0, preCost |-> 0]

Count(seq, x) == Cardinality({i \in 1 .. Len(seq) : seq[i] = x})
Range(seq) == {seq[i] : i \in 1 .. Len(seq)}

\* variant: a rejected logRequest surfaces in the request path
resJsonAwaitingLog(data, rejections) ==
    IF rejections > 0 THEN Resp(500, "server_error", "", NoUsage, TRUE) ELSE data

\* what reaches the wire when the handler calls res.json(data): every override
\* starts logRequest without awaiting it and hands data on unchanged
resJson(data, rejections) == data

\* the effect of res.json(data) on call c
Respond(c, call, data) ==
    LET invoked == LogInvocations(call.layers)
        accepted == {e \in Range(invoked) : ~LogRequestRejects(e, call.model)}
        rejections == Cardinality({i \in 1 .. Len(invoked) :
                                      LogRequestRejects(invoked[i], call.model)})
        begun == {Job(LogEntry(clock, call.userId, e, call.model, data)) : e \in accepted}
        new == [j \in begun |-> Count(invoked, j.entry.endpoint)]
    IN  /\ jobs' = jobs (+) new
        /\ opsErrors' = opsErrors + rejections
        /\ calls' = [calls EXCEPT ![c] =
                        [call EXCEPT !.st = "done", !.handlerResp = data,
                                     !.delivered = resJson(data, rejections),
                                     !.logCalls = Len(invoked),
                                     !.rejected = rejections]]

\* ------------------------------------------------------------------ handlers
\* The synchronous part of a protected route's handling, from the middleware
\* chain to the first await: the logging layers the request passed (the latest
\* first), the provider handler it reached, and the response if one was sent
\* at once (NoResp: the handler is awaiting the provider).
HandleRoute(route, layers, hasFile) ==
    LET handler == HandlerOf(route)
    IN  CASE route = "/api/files/upload" ->
                [layers |-> layers, handler |-> "none", target |-> route,
                 resp |-> IF hasFile THEN Resp(200, "upload", "", NoUsage, FALSE)
                          ELSE Resp(400, "no_files", "", NoUsage, TRUE)]
          [] route \in ProviderRoutes ->
                [layers |-> layers, handler |-> handler, target |-> route,
                 resp |-> IF KeyOf(handler) \notin keys THEN ConfigErrorResp(handler)
                          ELSE IF handler = "audio" /\ ~hasFile
                               THEN Resp(400, "no_audio_file", "", NoUsage, TRUE)
                          ELSE NoResp]
          [] OTHER ->
                [layers |-> layers, handler |-> "none", target |-> route,
                 resp |-> Resp(404, "not_found", "", NoUsage, TRUE)]

Dispatch(route, authHeader, bodyProvider, hasFile) ==
    IF ~verifyRequest(authHeader)
    THEN [layers |-> <<>>, handler |-> "none", target |-> "",
          resp |-> Resp(401, "unauthorized", "", NoUsage, TRUE)]
    ELSE IF route = "/api/unified/chat"
    THEN LET target == UnifiedTarget(bodyProvider)
         IN  IF target = ""
             THEN [layers |-> <<MountPath(route)>>, handler |-> "none", target |-> "",
                   resp |-> UnknownProviderResp(bodyProvider)]
             ELSE HandleRoute(target, <<MountPath(target), MountPath(route)>>, hasFile)
    ELSE HandleRoute(route, <<MountPath(route)>>, hasFile)

FirstNew(c) == calls[c].st = "new" /\ \A d \in CallIds : d < c => calls[d].st # "new"

\* a call to a route registered after app.use('/api', verifyRequest, loggingMiddleware)
Receive(c) ==
    /\ FirstNew(c)
    /\ \E header \in UserHeaders, authHeader \in AuthHeaders, model \in BodyModels,
          route \in Routes \ PublicRoutes :
         \E bodyProvider \in IF route = "/api/unified/chat" THEN BodyProviders
                             ELSE {NoProvider},
            hasFile \in IF route \in {"/api/audio/transcriptions", "/api/files/upload"}
                        THEN BOOLEAN ELSE {FALSE} :
            LET d == Dispatch(route, authHeader, bodyProvider, hasFile)
                call == [calls[c] EXCEPT !.userId = UserIdOf(header), !.model = model,
                                         !.route = route, !.provider = bodyProvider,
                                         !.auth = authHeader, !.target = d.target,
                                         !.layers = d.layers, !.handler = d.handler]
            IN  IF d.resp = NoResp
                THEN /\ calls' = [calls EXCEPT ![c] =
                                     [call EXCEPT !.st = "upstream", !.outbound = 1]]
                     /\ UNCHANGED <<jobs, opsErrors,
                       args, result>>
                ELSE Respond(c, call, d.resp)
    /\ UNCHANGED <<keys, summaryFile, fileVer, logFiles, clock, direct, faults, done,
                   lastWrite, prevWrite, overlap, maxReq,
                       args, result>>

\* axios.post settles: the handler transforms the reply and answers
UpstreamReply(c) ==
    /\ calls[c].st = "upstream"
    /\ \E reply \in Replies :
         LET call == [calls[c] EXCEPT !.reply = reply]
         IN  Respond(c, call, IF reply.kind = "ok" THEN UpstreamOkResp(call.handler, reply)
                              ELSE UpstreamErrorResp(reply))
    /\ UNCHANGED <<keys, summaryFile, fileVer, logFiles, clock, direct, faults, done,
                   lastWrite, prevWrite, overlap, maxReq,
                       args, result>>

\* GET /api/analytics/user/:userId and GET /api/analytics/all, registered before
\* the auth and logging middleware
Analytics(c) ==
    /\ FirstNew(c)
    /\ \E route \in PublicRoutes, param \in UserIds, authHeader \in AuthHeaders,
          readOk \in {TRUE} \cup {ok \in {FALSE} : faults < MaxFaults} :
         LET stats == getUserStats(summaryFile, readOk, param)
             data == IF route = "/api/analytics/all"
                     THEN StatsResp(getAllUserStats(summaryFile, readOk))
                     ELSE IF ~stats.exists
                          THEN Resp(404, "user_not_found", "", NoUsage, TRUE)
                          ELSE StatsResp([EmptyDoc EXCEPT ![param] = stats])
         IN  /\ calls' = [calls EXCEPT ![c] =
                 [@ EXCEPT !.st = "done", !.route = route, !.auth = authHeader,
                           !.param = IF route = "/api/analytics/all" THEN "unknown" ELSE param,
                           !.saw = IF readOk THEN summaryFile.kind ELSE "ioerror",
                           !.handlerResp = data, !.delivered = data]]
             /\ faults' = IF readOk THEN faults ELSE faults + 1
    /\ UNCHANGED <<keys, summaryFile, fileVer, logFiles, jobs, clock, direct, opsErrors,
                   done, lastWrite, prevWrite, overlap, maxReq,
                       args, result>>

\* ----------------------------------------------------- logRequest executions
One(j) == SetToBag({j})
InUpdate(j) == j.pc \in {"read", "wopen", "wdata"}
Max(a, b) == IF a >= b THEN a ELSE b

\* logRequest moves on from its awaited appendFile to updateUserSummary, which
\* issues its readFile
StartUpdate(j) ==
    /\ overlap' = (overlap \/ \E k \in BagToSet(jobs) : InUpdate(k))
    /\ jobs' = (jobs (-) One(j)) (+) One([j EXCEPT !.pc = "read"])

\* await fs.appendFile(logFile, line) resolves
AppendLog ==
    \E j \in BagToSet(jobs) :
        /\ j.pc = "append"
        /\ logFiles' = [logFiles EXCEPT ![DateOf(j.entry.timestamp)] = Append(@, j.entry)]
        /\ StartUpdate(j)
        /\ UNCHANGED <<keys, summaryFile, fileVer, calls, clock, direct, faults,
                       opsErrors, done, lastWrite, prevWrite, maxReq,
                       args, result>>

\* await fs.appendFile rejects: the catch logs the error and logRequest goes on
AppendFails ==
    \E j \in BagToSet(jobs) :
        /\ j.pc = "append"
        /\ faults < MaxFaults
        /\ faults' = faults + 1
        /\ opsErrors' = opsErrors + 1
        /\ StartUpdate(j)
        /\ UNCHANGED <<keys, summaryFile, fileVer, logFiles, calls, clock, direct, done,
                       lastWrite, prevWrite, maxReq,
                       args, result>>

\* the summaries are in hand (parsed, or left {}): the user's record is created
\* and incremented, and writeFile is issued
Loaded(j, summaries, readKind) ==
    jobs' = (jobs (-) One(j)) (+)
            One([j EXCEPT !.pc = "wopen",
                          !.snap = MutateSummary(summaries, j.entry.userId, j.entry),
                          !.readVer = fileVer,
                          !.readKind = readKind,
                          !.preOwn = summaries[j.entry.userId].totalRequests,
                          !.preTokens = summaries[j.entry.userId].totalTokens,
                          !.preCost = summaries[j.entry.userId].totalCost])

\* await fs.readFile(summaryFile) resolves (or rejects because there is no file)
ReadSummaries ==
    \E j \in BagToSet(jobs) :
        /\ j.pc = "read"
        /\ Loaded(j, LoadSummaries(summaryFile, TRUE), summaryFile.kind)
        /\ UNCHANGED <<keys, summaryFile, fileVer, logFiles, calls, clock, direct, faults,
                       opsErrors, done, lastWrite, prevWrite, overlap, maxReq,
                       args, result>>

\* await fs.readFile rejects although the file is there
ReadFails ==
    \E j \in BagToSet(jobs) :
        /\ j.pc = "read"
        /\ faults < MaxFaults
        /\ faults' = faults + 1
        /\ Loaded(j, LoadSummaries(summaryFile, FALSE), "ioerror")
        /\ UNCHANGED <<keys, summaryFile, fileVer, logFiles, calls, clock, direct,
                       opsErrors, done, lastWrite, prevWrite, overlap, maxReq,
                       args, result>>

\* updateUserSummary returns
Returned(j) ==
    done' = [done EXCEPT ![j.entry.userId] =
                [n |-> @.n + 1, tokens |-> @.tokens + j.entry.tokens.total,
                 cost |-> @.cost + j.entry.cost]]

\* fs.writeFile opens user_summaries.json for writing, truncating it
OpenForWrite ==
    \E j \in BagToSet(jobs) :
        /\ j.pc = "wopen"
        /\ summaryFile' = EmptyFile
        /\ fileVer' = fileVer + 1
        /\ jobs' = (jobs (-) One(j)) (+) One([j EXCEPT !.pc = "wdata"])
        /\ UNCHANGED <<keys, logFiles, calls, clock, direct, faults, opsErrors, done,
                       lastWrite, prevWrite, overlap, maxReq,
                       args, result>>

\* fs.writeFile writes the text and resolves; updateUserSummary returns
WriteSummaries ==
    \E j \in BagToSet(jobs) :
        /\ j.pc = "wdata"
        /\ \E file \in WriteOutcomes(j.snap, summaryFile) :
              /\ summaryFile' = file
              /\ maxReq' = [u \in UserIds |-> Max(maxReq[u], ReqOf(file, u))]
        /\ fileVer' = fileVer + 1
        /\ prevWrite' = lastWrite
        /\ lastWrite' = [userId |-> j.entry.userId, timestamp |-> j.entry.timestamp,
                         readVer |-> j.readVer, readKind |-> j.readKind,
                         preOwn |-> j.preOwn, clean |-> summaryFile.kind = "empty",
                         ver |-> fileVer + 1]
        /\ Returned(j)
        /\ jobs' = jobs (-) One(j)
        /\ UNCHANGED <<keys, logFiles, calls, clock, direct, faults, opsErrors, overlap,
                       args, result>>

\* fs.writeFile rejects, at the open (the file is untouched) or at the write
\* (the file stays as the truncation left it); the catch logs the error
WriteFails ==
    \E j \in BagToSet(jobs) :
        /\ j.pc \in {"wopen", "wdata"}
        /\ faults < MaxFaults
        /\ faults' = faults + 1
        /\ opsErrors' = opsErrors + 1
        /\ Returned(j)
        /\ jobs' = jobs (-) One(j)
        /\ UNCHANGED <<keys, summaryFile, fileVer, logFiles, calls, clock, direct,
                       lastWrite, prevWrite, overlap, maxReq,
                       args, result>>

\* logger.logRequest called directly, as the middleware's logResponse calls it
LoggerEndpoints == {"/chat/completions"}
LoggerModels == {"gpt-4o"}
LoggerResponses ==
    {Resp(200, "native", "completion",
          [has |-> TRUE, prompt |-> 1, completion |-> 2, total |-> 3], FALSE),
     Resp(500, "proxy_error", "", NoUsage, TRUE)}

LogRequest ==
    /\ direct < MaxJobs
    /\ direct' = direct + 1
    /\ \E userId \in UserIds, endpoint \in LoggerEndpoints, model \in LoggerModels,
          responseData \in LoggerResponses :
         jobs' = jobs (+) One(Job(LogEntry(clock, userId, endpoint, model, responseData)))
    /\ UNCHANGED <<keys, summaryFile, fileVer, logFiles, calls, clock, faults, opsErrors,
                   done, lastWrite, prevWrite, overlap, maxReq,
                       args, result>>

\* time passes
Tick ==
    /\ clock < MaxTime
    /\ clock' = clock + 1
    /\ UNCHANGED <<keys, summaryFile, fileVer, logFiles, jobs, calls, direct, faults,
                   opsErrors, done, lastWrite, prevWrite, overlap, maxReq,
                       args, result>>

\* ------------------------------------------------------------ specifications
\* the number of logRequest executions inside updateUserSummary
Active ==
    LET inside == {j \in BagToSet(jobs) : InUpdate(j)}
    IN  BagCardinality([j \in inside |-> CopiesIn(j, jobs)])

\* the server: the calls through the middleware chain and the logging they
\* start, with at most MaxActive updateUserSummary executions under way at a time
Next ==
    \/ \E c \in CallIds : Receive(c)
    \/ \E c \in CallIds : UpstreamReply(c)
    \/ \E c \in CallIds : Analytics(c)
    \/ Active < MaxActive /\ AppendLog
    \/ Active < MaxActive /\ AppendFails
    \/ ReadSummaries
    \/ ReadFails
    \/ OpenForWrite
    \/ WriteSummaries
    \/ WriteFails

Spec == Init /\ [][Next]_vars

\* the logger alone: concurrent logRequest executions on one logs directory,
\* with a file system that does not fail
InitLogger ==
    /\ Init
    /\ keys = {"openai"}

NextLogger ==
    \/ LogRequest
    \/ Tick
    \/ AppendLog
    \/ ReadSummaries
    \/ OpenForWrite
    \/ WriteSummaries

SpecLogger == InitLogger /\ [][NextLogger]_vars

\* the analytics of recent logs: GET /api/analytics/recent over a logs
\* directory filled on the dates 0..MaxDay, queried on the last of them
RecentDates == 0 .. MaxDay
RecentHours == {1, 24, 72, 100}
EntryAt(timestamp) ==
    LogEntry(timestamp, "u1", "/chat/completions", "gpt-4o",
             Resp(200, "native", "completion",
                  [has |-> TRUE, prompt |-> 1, completion |-> 2, total |-> 3], FALSE))

\* what a daily file can hold: nothing, one entry, only a broken line, entries
\* around a broken line, two entries appended out of order
DayShapes == 1 .. 5
DayLog(date, shape) ==
    LET first == date * TicksPerDay
        last == first + TicksPerDay - 1
    IN  CASE shape = 1 -> <<>>
          [] shape = 2 -> <<EntryAt(first)>>
          [] shape = 3 -> <<GarbageLine>>
          [] shape = 4 -> <<EntryAt(first), GarbageLine, EntryAt(last)>>
          [] OTHER -> <<EntryAt(last), EntryAt(first)>>

InitRecent ==
    /\ keys = {"openai"}
    /\ summaryFile = AbsentFile
    /\ fileVer = 0
    /\ \E shapes \in [RecentDates -> DayShapes] :
         logFiles = [d \in RecentDates |-> DayLog(d, shapes[d])]
    /\ jobs = EmptyBag
    /\ calls = [c \in CallIds |-> NewCall]
    /\ clock \in MaxDay * TicksPerDay .. MaxDay * TicksPerDay + TicksPerDay - 1
    /\ direct = 0
    /\ faults = 0
    /\ opsErrors = 0
    /\ done = [u \in UserIds |-> NoneDone]
    /\ lastWrite = NoWrite
    /\ prevWrite = NoWrite
    /\ overlap = FALSE
    /\ maxReq = [u \in UserIds |-> 0]
    /\ args = NoArgs
    /\ result = NoResult

\* GET /api/analytics/recent?hours=..., registered before the auth middleware
Recent(c) ==
    /\ FirstNew(c)
    /\ \E hours \in RecentHours, authHeader \in AuthHeaders :
         LET data == RecentResp(hours, getRecentLogs(logFiles, clock, hours))
         IN  calls' = [calls EXCEPT ![c] =
                 [@ EXCEPT !.st = "done", !.route = "/api/analytics/recent",
                           !.auth = authHeader, !.handlerResp = data,
                           !.delivered = data]]
    /\ UNCHANGED <<keys, summaryFile, fileVer, logFiles, jobs, clock, direct, faults,
                   opsErrors, done, lastWrite, prevWrite, overlap, maxReq,
                       args, result>>

NextRecent == \E c \in CallIds : Recent(c)

SpecRecent == InitRecent /\ [][NextRecent]_vars

\* ------------------------------------------------- functions called directly
serverVars == <<keys, summaryFile, fileVer, logFiles, jobs, calls, clock, direct, faults,
                opsErrors, done, lastWrite, prevWrite, overlap, maxReq>>

\* a process that serves no request
NoServer ==
    /\ keys = {"openai"}
    /\ summaryFile = AbsentFile
    /\ fileVer = 0
    /\ logFiles = [d \in Dates |-> <<>>]
    /\ jobs = EmptyBag
    /\ calls = [c \in CallIds |-> NewCall]
    /\ clock = 0
    /\ direct = 0
    /\ faults = 0
    /\ opsErrors = 0
    /\ done = [u \in UserIds |-> NoneDone]
    /\ lastWrite = NoWrite
    /\ prevWrite = NoWrite
    /\ overlap = FALSE
    /\ maxReq = [u \in UserIds |-> 0]

\* calculateCost(model, usage, provider) on models in and out of the pricing
\* table, providers with and without default rates, and growing token counts
CostModels == {NoModel, "gpt-4o", "gpt-4o-mini", "claude-3-opus-20240229",
               "gemini-2.0-flash", "my-model"}
CostProviders == Providers \cup {"mistral"}
Usage(prompt, completion) ==
    [has |-> TRUE, prompt |-> prompt, completion |-> completion,
     total |-> prompt + completion]
CostUsages == {NoUsage} \cup {Usage(p, c) : p \in 0 .. MaxTokens, c \in 0 .. MaxTokens}

InitCost ==
    /\ NoServer
    /\ args \in [fn : {"calculateCost"}, model : CostModels, provider : CostProviders,
                 usage : CostUsages]
    /\ result = NoResult

CalculateCost ==
    /\ args.fn = "calculateCost"
    /\ result = NoResult
    /\ result' = [fn |-> "calculateCost", grown |-> FALSE, before |-> 0,
                  cost |-> calculateCost(args.model, args.usage, args.provider)]
    /\ UNCHANGED <<serverVars, args>>

\* the same call with one more prompt or completion token
MoreTokens ==
    /\ args.fn = "calculateCost"
    /\ result # NoResult
    /\ args.usage.has
    /\ \E field \in {"prompt", "completion"} :
         /\ args.usage[field] < MaxTokens
         /\ args' = [args EXCEPT !.usage[field] = @ + 1, !.usage.total = @ + 1]
    /\ result' = [fn |-> "calculateCost", grown |-> TRUE, before |-> result.cost,
                  cost |-> calculateCost(args'.model, args'.usage, args'.provider)]
    /\ UNCHANGED serverVars

NextCost == CalculateCost \/ MoreTokens

SpecCost == InitCost /\ [][NextCost]_vars

\* ------------------------------------------ transformMessagesToGeminiFormat
\* msg.content is a string or an array of parts; a part is a text or an image URL
Text(text) == [type |-> "text", text |-> text, url |-> ""]
ImageUrl(url) == [type |-> "image_url", text |-> "", url |-> url]
StringContent(text) == [isString |-> TRUE, text |-> text, items |-> <<>>]
ArrayContent(items) == [isString |-> FALSE, text |-> "", items |-> items]
Message(role, content) == [role |-> role, content |-> content]

NoMatch == [matches |-> FALSE, mime |-> "", data |-> ""]

\* variant: every data: URL is taken, split at the first comma
MatchDataUrlLoosely(imageUrl) ==
    CASE imageUrl = "data:image/png;base64,iVBORw0" ->
            [matches |-> TRUE, mime |-> "image/png", data |-> "iVBORw0"]
      [] imageUrl = "data:image/jpeg;base64,/9j/4AA" ->
            [matches |-> TRUE, mime |-> "image/jpeg", data |-> "/9j/4AA"]
      [] imageUrl = "data:image/png;charset=utf-8;base64,iVBORw0" ->
            [matches |-> TRUE, mime |-> "image/png", data |-> "iVBORw0"]
      [] imageUrl = "data:text/plain,hello" ->
            [matches |-> TRUE, mime |-> "text/plain", data |-> "hello"]
      [] OTHER -> NoMatch

\* imageUrl.startsWith('data:') and imageUrl.match(/^data:([^;]+);base64,(.+)$/)
\* over the URLs of the model
MatchDataUrl(imageUrl) ==
    CASE imageUrl = "data:image/png;base64,iVBORw0" ->
            [matches |-> TRUE, mime |-> "image/png", data |-> "iVBORw0"]
      [] imageUrl = "data:image/jpeg;base64,/9j/4AA" ->
            [matches |-> TRUE, mime |-> "image/jpeg", data |-> "/9j/4AA"]
      [] imageUrl \in {"https://example.com/cat.png", "data:image/png;base64,",
                       "data:image/png;charset=utf-8;base64,iVBORw0",
                       "data:text/plain,hello"} -> NoMatch
      [] OTHER -> NoMatch

TextPart(text) == [kind |-> "text", text |-> text, mime_type |-> "", data |-> ""]
InlineData(mime, data) == [kind |-> "inline_data", text |-> "", mime_type |-> mime, data |-> data]

\* `${systemPrompt}\n\n${text}`
WithSystemPrompt(systemPrompt, text) == systemPrompt \o "\n\n" \o text

\* the loop over the parts of an array content, from item k on: the parts
\* pushed and the system prompt left
RECURSIVE PartsLoop(_, _, _, _, _)
PartsLoop(items, k, role, systemPrompt, isFirst) ==
    IF k > Len(items) THEN [parts |-> <<>>, systemPrompt |-> systemPrompt]
    ELSE LET item == items[k]
             merges == item.type = "text" /\ role = "user" /\ systemPrompt # "" /\ isFirst
             pushed == CASE merges -> <<TextPart(WithSystemPrompt(systemPrompt, item.text))>>
                         [] item.type = "text" /\ ~merges -> <<TextPart(item.text)>>
                         [] item.type = "image_url" /\ MatchDataUrl(item.url).matches ->
                               <<InlineData(MatchDataUrl(item.url).mime,
                                            MatchDataUrl(item.url).data)>>
                         [] OTHER -> <<>>
             rest == PartsLoop(items, k + 1, role, IF merges THEN "" ELSE systemPrompt,
                               isFirst)
         IN  [parts |-> pushed \o rest.parts, systemPrompt |-> rest.systemPrompt]

\* the loop over the messages, from message i on
RECURSIVE MessagesLoop(_, _, _, _)
MessagesLoop(messages, i, contents, systemPrompt) ==
    IF i > Len(messages) THEN contents
    ELSE LET msg == messages[i]
             role == IF msg.role = "assistant" THEN "model" ELSE "user"
             isFirst == Len(contents) = 0
             merges == role = "user" /\ systemPrompt # "" /\ isFirst
             made == IF msg.content.isString
                     THEN [parts |-> IF merges
                                     THEN <<TextPart(WithSystemPrompt(systemPrompt,
                                                                      msg.content.text))>>
                                     ELSE <<TextPart(msg.content.text)>>,
                           systemPrompt |-> IF merges THEN "" ELSE systemPrompt]
                     ELSE PartsLoop(msg.content.items, 1, role, systemPrompt, isFirst)
         IN  IF msg.role = "system"
             THEN MessagesLoop(messages, i + 1, contents, msg.content.text)
             ELSE MessagesLoop(messages, i + 1,
                               Append(contents, [role |-> role, parts |-> made.parts]),
                               made.systemPrompt)

transformMessagesToGeminiFormat(messages) == MessagesLoop(messages, 1, <<>>, "")

\* the message lists a caller sends
ImageUrls == {"data:image/png;base64,iVBORw0", "data:image/jpeg;base64,/9j/4AA",
              "https://example.com/cat.png", "data:image/png;base64,",
              "data:image/png;charset=utf-8;base64,iVBORw0", "data:text/plain,hello"}
SystemMessages == {Message("system", StringContent("Be terse."))}
ChatMessages ==
    SystemMessages
    \cup {Message("user", StringContent("Hi")),
          Message("assistant", StringContent("Hello")),
          Message("user", ArrayContent(<<ImageUrl("data:image/png;base64,iVBORw0")>>)),
          Message("user", ArrayContent(<<Text("Look"), Text("Again")>>))}
    \cup {Message("user", ArrayContent(<<ImageUrl(u), Text("What"),
                                         ImageUrl("data:image/jpeg;base64,/9j/4AA")>>)) :
            u \in ImageUrls}
MessageLists == UNION {[1 .. n -> ChatMessages] : n \in 1 .. MaxMessages}

InitGemini ==
    /\ NoServer
    /\ args \in [fn : {"transformMessagesToGeminiFormat"}, messages : MessageLists]
    /\ result = NoResult

\* contents: req.body.contents || transformMessagesToGeminiFormat(req.body.messages)
TransformMessages ==
    /\ args.fn = "transformMessagesToGeminiFormat"
    /\ result = NoResult
    /\ result' = [fn |-> "transformMessagesToGeminiFormat",
                  contents |-> transformMessagesToGeminiFormat(args.messages)]
    /\ UNCHANGED <<serverVars, args>>

NextGemini == TransformMessages

SpecGemini == InitGemini /\ [][NextGemini]_vars

\* --------------------------------------- the request sent to Anthropic
\* req.body of POST /api/anthropic/messages; "" and 0 stand for absent fields
NoSystem == ""
Bodies ==
    [model : {NoModel, "claude-3-haiku-20240307"}, max_tokens : {0, 1024},
     messages : MessageLists, system : {NoSystem, "Be brief."}]

\* const anthropicRequest = { model, max_tokens, messages, system }
anthropicRequest(body) ==
    [model |-> IF body.model = NoModel THEN "claude-sonnet-4-20250514" ELSE body.model,
     max_tokens |-> IF body.max_tokens = 0 THEN 4096 ELSE body.max_tokens,
     messages |-> body.messages,
     system |-> body.system]

InitAnthropic ==
    /\ NoServer
    /\ args \in [fn : {"anthropicRequest"}, body : Bodies]
    /\ result = NoResult

BuildAnthropicRequest ==
    /\ args.fn = "anthropicRequest"
    /\ result = NoResult
    /\ result' = [fn |-> "anthropicRequest", request |-> anthropicRequest(args.body)]
    /\ UNCHANGED <<serverVars, args>>

NextAnthropic == BuildAnthropicRequest

SpecAnthropic == InitAnthropic /\ [][NextAnthropic]_vars

\* ------------------------------------- the provider responses transformed
\* response.data of the Anthropic call; "<undefined>" and has = FALSE stand for
\* absent fields
NoStopReason == "<undefined>"
NoText == "<undefined>"
AnthropicData ==
    [text : {"Hello", NoText},
     stop_reason : {"end_turn", "max_tokens", "stop_sequence", "tool_use", NoStopReason},
     usage : {[has |-> FALSE, input_tokens |-> 0, output_tokens |-> 0]}
               \cup [has : {TRUE}, input_tokens : 0 .. MaxTokens,
                     output_tokens : 0 .. MaxTokens]]

\* variant: max_tokens is normalised to length as well
anthropicResponseNormalised(data) ==
    [object |-> "chat.completion",
     content |-> IF data.text = NoText THEN "" ELSE data.text,
     finish_reason |-> CASE data.stop_reason = "end_turn" -> "stop"
                         [] data.stop_reason = "max_tokens" -> "length"
                         [] OTHER -> data.stop_reason,
     usage |-> [prompt_tokens |-> data.usage.input_tokens,
                completion_tokens |-> data.usage.output_tokens,
                total_tokens |-> data.usage.input_tokens + data.usage.output_tokens]]

\* const transformedResponse = {...} of POST /api/anthropic/messages
anthropicResponse(data) ==
    [object |-> "chat.completion",
     content |-> IF data.text = NoText THEN "" ELSE data.text,
     finish_reason |-> IF data.stop_reason = "end_turn" THEN "stop" ELSE data.stop_reason,
     usage |-> [prompt_tokens |-> data.usage.input_tokens,
                completion_tokens |-> data.usage.output_tokens,
                total_tokens |-> data.usage.input_tokens + data.usage.output_tokens]]

\* response.data of the Google call: candidates may be missing or empty, and
\* the first candidate may lack finishReason
NoFinishReason == "<undefined>"
GoogleData ==
    [hasCandidate : BOOLEAN,
     text : {"Hello", NoText},
     finishReason : {"STOP", "MAX_TOKENS", "SAFETY", "RECITATION", NoFinishReason},
     usageMetadata : {[has |-> FALSE, promptTokenCount |-> 0, candidatesTokenCount |-> 0,
                       totalTokenCount |-> 0]}
                       \cup [has : {TRUE}, promptTokenCount : {1},
                             candidatesTokenCount : {2}, totalTokenCount : {0, 3, 4}]]

\* response.data.candidates?.[0]?.finishReason
FirstFinishReason(data) ==
    IF data.hasCandidate THEN data.finishReason ELSE NoFinishReason

\* variant: a safety block is reported as content_filter
googleResponseContentFilter(data) ==
    [object |-> "chat.completion",
     content |-> IF data.hasCandidate /\ data.text # NoText THEN data.text ELSE "",
     finish_reason |-> CASE FirstFinishReason(data) = "STOP" -> "stop"
                         [] FirstFinishReason(data) = "SAFETY" -> "content_filter"
                         [] OTHER -> "length",
     usage |-> [prompt_tokens |-> data.usageMetadata.promptTokenCount,
                completion_tokens |-> data.usageMetadata.candidatesTokenCount,
                total_tokens |-> data.usageMetadata.totalTokenCount]]

\* const transformedResponse = {...} of POST /api/google/generateContent
googleResponse(data) ==
    [object |-> "chat.completion",
     content |-> IF data.hasCandidate /\ data.text # NoText THEN data.text ELSE "",
     finish_reason |-> IF FirstFinishReason(data) = "STOP" THEN "stop" ELSE "length",
     usage |-> [prompt_tokens |-> data.usageMetadata.promptTokenCount,
                completion_tokens |-> data.usageMetadata.candidatesTokenCount,
                total_tokens |-> data.usageMetadata.totalTokenCount]]

InitTransform ==
    /\ NoServer
    /\ \/ args \in [fn : {"anthropicResponse"}, data : AnthropicData]
       \/ args \in [fn : {"googleResponse"}, data : GoogleData]
    /\ result = NoResult

TransformAnthropic ==
    /\ args.fn = "anthropicResponse"
    /\ result = NoResult
    /\ result' = [fn |-> "anthropicResponse", response |-> anthropicResponse(args.data)]
    /\ UNCHANGED <<serverVars, args>>

TransformGoogle ==
    /\ args.fn = "googleResponse"
    /\ result = NoResult
    /\ result' = [fn |-> "googleResponse", response |-> googleResponse(args.data)]
    /\ UNCHANGED <<serverVars, args>>

NextTransform == TransformAnthropic \/ TransformGoogle

SpecTransform == InitTransform /\ [][NextTransform]_vars

\* ----------------------------------------- analytics over an existing store
\* user_summaries.json as earlier requests left it: missing, cut short, broken,
\* or the document after one or two updates
StoredEntries ==
    {LogEntry(t, u, e, m, r) : t \in 0 .. MaxTime, u \in UserIds, e \in LoggerEndpoints,
                               m \in LoggerModels, r \in LoggerResponses}
StoredDocs ==
    LET once == {MutateSummary(EmptyDoc, e.userId, e) : e \in StoredEntries}
    IN  once \cup {MutateSummary(d, e.userId, e) : d \in once, e \in StoredEntries}
StoredFiles == {AbsentFile, EmptyFile, GarbageFile} \cup {JsonFile(d) : d \in StoredDocs}

InitStats ==
    /\ keys = {"openai"}
    /\ summaryFile \in StoredFiles
    /\ fileVer = 0
    /\ logFiles = [d \in Dates |-> <<>>]
    /\ jobs = EmptyBag
    /\ calls = [c \in CallIds |-> NewCall]
    /\ clock = 0
    /\ direct = 0
    /\ faults = 0
    /\ opsErrors = 0
    /\ done = [u \in UserIds |-> NoneDone]
    /\ lastWrite = NoWrite
    /\ prevWrite = NoWrite
    /\ overlap = FALSE
    /\ maxReq = [u \in UserIds |-> 0]
    /\ args = NoArgs
    /\ result = NoResult

NextStats == \E c \in CallIds : Analytics(c)

SpecStats == InitStats /\ [][NextStats]_vars

\* -------------------------------------------------------------------- claims
Quiet == jobs = EmptyBag
NoneInUpdate == \A j \in BagToSet(jobs) : ~InUpdate(j)
TokensOf(file, u) == IF Parses(file) THEN file.doc[u].totalTokens ELSE 0
CostOf(file, u) == IF Parses(file) THEN file.doc[u].totalCost ELSE 0
Protected(call) == call.route \in Routes \ PublicRoutes /\ verifyRequest(call.auth)

\* C1: once all M concurrent logRequest executions for a user have finished,
\* the persisted summary of that user has totalRequests = M (SpecLogger: no
\* file-system failure).
C1_NoLostUpdate ==
    Quiet => \A u \in UserIds : ReqOf(summaryFile, u) = done[u].n

\* C2: after N updateUserSummary executions for a user, none overlapping
\* another, starting from a store without summaries and with no I/O failure,
\* the persisted totalRequests is N and totalTokens and totalCost are the sums
\* of the entries' tokens.total and cost.
C2_SequentialSums ==
    (~overlap /\ NoneInUpdate) =>
        \A u \in UserIds :
            /\ ReqOf(summaryFile, u) = done[u].n
            /\ TokensOf(summaryFile, u) = done[u].tokens
            /\ CostOf(summaryFile, u) = done[u].cost

C2_Witness ==
    /\ ~overlap
    /\ Quiet
    /\ done["u1"].n = MaxJobs
    /\ done["u1"].cost > 0
    /\ done["u1"].tokens < 3 * MaxJobs

\* C3: when two updateUserSummary executions for different users read the same
\* version of the document and both complete their writes, the document the
\* later one leaves holds, for the earlier writer's user, what was there before
\* either wrote: the earlier increment is gone.
RacedWrites ==
    /\ prevWrite.ver > 0
    /\ lastWrite.userId # prevWrite.userId
    /\ lastWrite.readVer = prevWrite.readVer
    /\ fileVer = lastWrite.ver
    /\ Parses(summaryFile)

C3_LastWriterWins ==
    RacedWrites => ReqOf(summaryFile, prevWrite.userId) = prevWrite.preOwn

C3_Witness ==
    /\ RacedWrites
    /\ Quiet
    /\ prevWrite.preOwn = 1
    /\ done[prevWrite.userId].n = 2

\* C4: every authenticated call to a protected /api endpoint that completes
\* invokes logger.logRequest exactly once.
C4_LoggedOnce ==
    \A c \in CallIds :
        (calls[c].st = "done" /\ Protected(calls[c])) => calls[c].logCalls = 1

\* C5: whatever happens to the logging (the append, the summary read or write
\* fails, or logRequest rejects), the caller receives the status and body the
\* handler passed to res.json, and no logRequest execution has started for a
\* call that is still unanswered.
C5_LoggingNeverAltersResponse ==
    \A c \in CallIds :
        /\ calls[c].st = "done" =>
              /\ calls[c].delivered = calls[c].handlerResp
              /\ calls[c].delivered # NoResp
        /\ calls[c].st # "done" =>
              /\ calls[c].logCalls = 0
              /\ calls[c].delivered = NoResp

C5_Witness ==
    \E c \in CallIds :
        /\ calls[c].st = "done"
        /\ calls[c].delivered.kind = "native"
        /\ calls[c].rejected = 0
        /\ faults > 0
        /\ opsErrors > 0
        /\ Quiet

\* C6: the totalRequests of a user in the persisted document never decreases
\* from one persisted document to the next: every document that parses and
\* holds a record of the user holds the largest totalRequests persisted for
\* that user so far.
C6_NeverDecreases ==
    Parses(summaryFile) =>
        \A u \in UserIds :
            summaryFile.doc[u].exists => ReqOf(summaryFile, u) = maxReq[u]

\* C7: with user_summaries.json missing or unparseable, getAllUserStats yields
\* the empty collection, getUserStats yields not-found (404), and
\* updateUserSummary starts from no summaries, creates the user's record from
\* scratch and persists it.
Unreadable == {"absent", "garbage", "empty"}
FirstSummary(j) ==
    [FreshSummary(j.entry) EXCEPT
        !.totalRequests = 1, !.totalTokens = j.entry.tokens.total,
        !.totalCost = j.entry.cost, !.lastSeen = j.entry.timestamp,
        !.endpointCounts[j.entry.endpoint] = 1, !.modelCounts[j.entry.model] = 1,
        !.providerCounts[j.entry.provider] = 1]

C7_MissingStoreIsEmpty ==
    /\ \A c \in CallIds :
          (calls[c].st = "done" /\ calls[c].saw \in Unreadable) =>
              /\ calls[c].route = "/api/analytics/all" =>
                    calls[c].delivered = StatsResp(EmptyDoc)
              /\ calls[c].route = "/api/analytics/user" =>
                    /\ calls[c].delivered.status = 404
                    /\ calls[c].delivered.kind = "user_not_found"
    /\ \A j \in BagToSet(jobs) :
          (j.pc \in {"wopen", "wdata"} /\ j.readKind \in Unreadable) =>
              j.snap = [EmptyDoc EXCEPT ![j.entry.userId] = FirstSummary(j)]
    /\ (lastWrite.readKind \in Unreadable /\ lastWrite.clean /\ fileVer = lastWrite.ver) =>
          /\ Parses(summaryFile)
          /\ \A u \in UserIds : summaryFile.doc[u].exists <=> u = lastWrite.userId
          /\ ReqOf(summaryFile, lastWrite.userId) = 1
          /\ summaryFile.doc[lastWrite.userId].firstSeen = lastWrite.timestamp

C7_Witness ==
    /\ lastWrite.readKind = "garbage"
    /\ lastWrite.clean
    /\ fileVer = lastWrite.ver
    /\ ReqOf(summaryFile, lastWrite.userId) = 1

\* C8: a unified-endpoint request whose provider is outside the alias table is
\* answered 400 with a message naming the provider, and no provider call is made.
AliasTable == {"openai", "anthropic", "claude", "google", "gemini"}
OutsideAliasTable(call) ==
    /\ call.route = "/api/unified/chat"
    /\ verifyRequest(call.auth)
    /\ call.provider # NoProvider
    /\ toLowerCase(call.provider) \notin AliasTable

C8_UnknownProviderRejected ==
    \A c \in CallIds :
        OutsideAliasTable(calls[c]) =>
            /\ calls[c].st = "done"
            /\ calls[c].delivered.status = 400
            /\ calls[c].delivered.kind = "invalid_request"
            /\ calls[c].delivered.detail = calls[c].provider
            /\ calls[c].outbound = 0

C8_Witness ==
    \E c \in CallIds :
        /\ OutsideAliasTable(calls[c])
        /\ calls[c].provider = "Foo"
        /\ calls[c].delivered.status = 400

\* C9: a request that reaches a provider handler (OpenAI chat, OpenAI
\* transcription, Anthropic, Google) whose API key is absent is answered 503
\* with a configuration_error payload and no provider call is issued.
KeyAbsent(call) ==
    \/ call.target \in {"/api/chat/completions", "/api/audio/transcriptions"}
         /\ "openai" \notin keys
    \/ call.target = "/api/anthropic/messages" /\ "anthropic" \notin keys
    \/ call.target = "/api/google/generateContent" /\ "google" \notin keys

C9_MissingKeyIs503 ==
    \A c \in CallIds :
        KeyAbsent(calls[c]) =>
            /\ calls[c].st = "done"
            /\ calls[c].delivered.status = 503
            /\ calls[c].delivered.kind = "configuration_error"
            /\ calls[c].outbound = 0

C9_Witness ==
    \E c \in CallIds :
        /\ KeyAbsent(calls[c])
        /\ calls[c].route = "/api/unified/chat"
        /\ calls[c].target = "/api/anthropic/messages"
        /\ calls[c].delivered.status = 503

\* C10: when the provider call fails, the caller gets the upstream status and
\* the upstream payload unchanged whenever the upstream supplied them; the
\* synthetic proxy_error payload stands in only for a payload the upstream did
\* not supply, and status 500 only for a status it did not supply.
C10_UpstreamErrorPassedThrough ==
    \A c \in CallIds :
        (calls[c].st = "done" /\ calls[c].reply.kind \in {"error", "noresponse"}) =>
            LET reply == calls[c].reply
                sent == calls[c].delivered
            IN  /\ reply.kind = "error" => sent.status = reply.status
                /\ (reply.kind = "error" /\ reply.payload # NoPayload) =>
                      (sent.kind = "upstream_payload" /\ sent.detail = reply.payload)
                /\ sent.kind = "proxy_error" <=>
                      (reply.kind = "noresponse" \/ reply.payload = NoPayload)
                /\ reply.kind = "noresponse" => sent.status = 500

C10_Witness ==
    \E c \in CallIds :
        /\ calls[c].st = "done"
        /\ calls[c].reply.kind = "error"
        /\ calls[c].reply.payload = "upstream_error"
        /\ calls[c].delivered.status = 429
        /\ calls[c].delivered.detail = "upstream_error"

\* C11: the unified endpoint resolves the provider identifier against the alias
\* table in any letter case: openai goes to the OpenAI chat handler, anthropic
\* and claude to the Anthropic handler, google and gemini to the Google handler;
\* every request reaches exactly one provider handler or is rejected with 400
\* before any handler ran.
SpelledAs(call, spellings) == call.provider \in spellings
UnifiedCall(call) ==
    call.route = "/api/unified/chat" /\ verifyRequest(call.auth) /\ call.st # "new"

C11_AliasResolution ==
    \A c \in CallIds :
        UnifiedCall(calls[c]) =>
            /\ SpelledAs(calls[c], {"openai", "OpenAI"}) =>
                  (calls[c].handler = "chat" /\ calls[c].target = "/api/chat/completions")
            /\ SpelledAs(calls[c], {"anthropic", "ANTHROPIC", "Claude"}) =>
                  (calls[c].handler = "anthropic"
                     /\ calls[c].target = "/api/anthropic/messages")
            /\ SpelledAs(calls[c], {"gemini", "Gemini", "GOOGLE"}) =>
                  (calls[c].handler = "google"
                     /\ calls[c].target = "/api/google/generateContent")
            /\ \/ /\ calls[c].handler \in {"chat", "anthropic", "google"}
                  /\ calls[c].target \in ProviderRoutes
                  /\ calls[c].layers = <<MountPath(calls[c].target), "/unified/chat">>
                  /\ calls[c].delivered.kind # "invalid_request"
               \/ /\ calls[c].handler = "none"
                  /\ calls[c].target = ""
                  /\ calls[c].delivered.status = 400
                  /\ calls[c].outbound = 0

C11_Witness ==
    \E c \in CallIds :
        /\ UnifiedCall(calls[c])
        /\ calls[c].provider = "GOOGLE"
        /\ calls[c].handler = "google"
        /\ calls[c].st = "done"
        /\ calls[c].reply.kind = "ok"

\* C12: getRecentLogs(hours) returns only entries whose age at the time of
\* the call is at most hours, skips lines that do not parse instead of failing,
\* and returns the entries latest first: of two adjacent entries the earlier in
\* the list has the later or the same timestamp.
RecentCall(call) == call.st = "done" /\ call.route = "/api/analytics/recent"
AgeWithin(timestamp, hours) == (clock - timestamp) * 24 <= hours * TicksPerDay
Lines(files) == UNION {Range(files[d]) : d \in DOMAIN files}

C12_RecentLogsFilteredAndSorted ==
    \A c \in CallIds :
        RecentCall(calls[c]) =>
            LET logs == calls[c].delivered.logs
            IN  /\ calls[c].delivered.status = 200
                /\ \A i \in 1 .. Len(logs) :
                      /\ logs[i] # GarbageLine
                      /\ logs[i] \in Lines(logFiles)
                      /\ AgeWithin(logs[i].timestamp, calls[c].delivered.hours)
                /\ \A i \in 1 .. Len(logs) - 1 :
                      logs[i].timestamp >= logs[i + 1].timestamp

C12_Witness ==
    \E c \in CallIds :
        /\ RecentCall(calls[c])
        /\ calls[c].delivered.hours = 24
        /\ Len(calls[c].delivered.logs) >= 3
        /\ GarbageLine \in Range(logFiles[DateOf(clock)])
        /\ \E line \in Range(logFiles[DateOf(clock) - 1]) :
              /\ JsonParses(line)
              /\ ~AgeWithin(line.timestamp, 24)

\* C13: whatever hours is, also above 72, getRecentLogs reads only the daily
\* files of today and the two days before, so no returned entry is older than
\* 72 hours, and an entry timestamped 4 days ago is never returned.
C13_ThreeDayWindow ==
    \A c \in CallIds :
        RecentCall(calls[c]) =>
            \A i \in 1 .. Len(calls[c].delivered.logs) :
                LET entry == calls[c].delivered.logs[i]
                IN  /\ DateOf(entry.timestamp) \in
                           {DateOf(clock), DateOf(clock) - 1, DateOf(clock) - 2}
                    /\ AgeWithin(entry.timestamp, 72)
                    /\ (clock - entry.timestamp) < 4 * TicksPerDay

C13_Witness ==
    \E c \in CallIds :
        /\ RecentCall(calls[c])
        /\ calls[c].delivered.hours = 100
        /\ Len(calls[c].delivered.logs) >= 1
        /\ \E line \in Range(logFiles[DateOf(clock) - 4]) :
              /\ JsonParses(line)
              /\ line.timestamp = clock - 4 * TicksPerDay
              /\ AgeWithin(line.timestamp, 100)

\* C14: calculateCost takes the rates of the model's own entry of the pricing
\* table when the model is listed, else the default rates of the given
\* provider, else (unknown provider) the openai default; the cost is
\* promptTokens / 1e6 * inputRate + completionTokens / 1e6 * outputRate (here in
\* units of 1e-9 dollar, the rates being dollars per million tokens times 1000).
ResolvedRates(model, provider) ==
    IF pricing(model).listed THEN pricing(model)
    ELSE IF provider \in {"openai", "anthropic", "google"} THEN defaultPricing(provider)
    ELSE defaultPricing("openai")
CostComputed == result.fn = "calculateCost" /\ args.usage.has
CostOfCall(model, provider, prompt, completion) ==
    (args.model = model /\ args.provider = provider /\ args.usage.prompt = prompt
        /\ args.usage.completion = completion)

C14_RateResolution ==
    CostComputed =>
        /\ result.cost =
              args.usage.prompt * ResolvedRates(args.model, args.provider).input
                + args.usage.completion * ResolvedRates(args.model, args.provider).output
        /\ CostOfCall("gpt-4o-mini", "anthropic", 1, 2) => result.cost = 150 + 2 * 600
        /\ CostOfCall("my-model", "anthropic", 1, 2) => result.cost = 3000 + 2 * 15000
        /\ CostOfCall("my-model", "google", 2, 1) => result.cost = 2 * 1250 + 5000
        /\ CostOfCall("my-model", "mistral", 1, 2) => result.cost = 5000 + 2 * 15000
        /\ CostOfCall(NoModel, "mistral", 1, 0) => result.cost = 5000

C14_Witness ==
    /\ CostComputed
    /\ CostOfCall("my-model", "mistral", 1, 2)
    /\ result.cost = 35000

\* C15: for a fixed model and provider, calculateCost does not decrease when
\* promptTokens or completionTokens grows, and is zero when both are zero.
C15_CostMonotonic ==
    CostComputed =>
        /\ result.grown => result.cost >= result.before
        /\ (args.usage.prompt = 0 /\ args.usage.completion = 0) => result.cost = 0
        /\ result.cost >= 0

C15_Witness ==
    /\ CostComputed
    /\ result.grown
    /\ result.before > 0
    /\ result.cost > result.before
    /\ args.usage.prompt = MaxTokens
    /\ args.usage.completion = MaxTokens

\* C16: a log entry built from a response without usage information has
\* prompt, completion and total tokens 0 and cost 0; the update it causes
\* leaves the user's totalTokens and totalCost as they were read and adds one
\* to totalRequests.
NoUsageEntry(entry) ==
    \E responseData \in LoggerResponses :
        /\ ~responseData.usage.has
        /\ entry = LogEntry(entry.timestamp, entry.userId, entry.endpoint, entry.model,
                            responseData)

C16_NoUsageCountsRequestOnly ==
    \A j \in BagToSet(jobs) :
        NoUsageEntry(j.entry) =>
            /\ j.entry.tokens = [prompt |-> 0, completion |-> 0, total |-> 0]
            /\ j.entry.cost = 0
            /\ j.pc \in {"wopen", "wdata"} =>
                  LET summary == j.snap[j.entry.userId]
                  IN  /\ summary.totalTokens = j.preTokens
                      /\ summary.totalCost = j.preCost
                      /\ summary.totalRequests = j.preOwn + 1

C16_Witness ==
    \E j \in BagToSet(jobs) :
        /\ NoUsageEntry(j.entry)
        /\ j.pc = "wdata"
        /\ j.preOwn = 1
        /\ j.preTokens = 3
        /\ j.preCost > 0
        /\ j.snap[j.entry.userId].totalRequests = 2

\* C17: every log entry logRequest writes has tokens.total = tokens.prompt +
\* tokens.completion, on the OpenAI passthrough path, the Anthropic path and the
\* Google path, also when the upstream usage is partial.
C17_TotalIsSum ==
    \A d \in DOMAIN logFiles :
        \A i \in 1 .. Len(logFiles[d]) :
            logFiles[d][i].tokens.total =
                logFiles[d][i].tokens.prompt + logFiles[d][i].tokens.completion

\* C18: for a message list that starts with the system message and contains a
\* user message with a text part, the output has one entry per non-system
\* message and none for the system message, and the system prompt followed by
\* a blank line is prepended to the first text part of the first user-role
\* message that has one, and to no other part, whatever precedes that message.
GeminiDone == result.fn = "transformMessagesToGeminiFormat"
IsSystem(msg) == msg.role = "system"
NotSystem(msg) == msg.role # "system"
NonSystem(messages) == SelectSeq(messages, NotSystem)
IsText(item) == item.type = "text"
TextOf(items) == [i \in 1 .. Len(items) |-> items[i].text]
OrigTexts(msg) ==
    IF msg.content.isString THEN <<msg.content.text>>
    ELSE TextOf(SelectSeq(msg.content.items, IsText))
IsTextPart(part) == part.kind = "text"
OutTexts(entry) == TextOf(SelectSeq(entry.parts, IsTextPart))
UserWithText(msg) == msg.role = "user" /\ OrigTexts(msg) # <<>>
SystemFirst(messages) ==
    /\ IsSystem(messages[1])
    /\ \A i \in 2 .. Len(messages) : NotSystem(messages[i])
    /\ \E i \in 2 .. Len(messages) : UserWithText(messages[i])
FirstUserWithText(messages) ==
    CHOOSE k \in 1 .. Len(messages) :
        /\ UserWithText(messages[k])
        /\ \A h \in 1 .. k - 1 : ~UserWithText(messages[h])

C18_SystemPromptInFirstUserText ==
    (GeminiDone /\ SystemFirst(args.messages)) =>
        LET rest == NonSystem(args.messages)
            target == FirstUserWithText(rest)
            out == result.contents
        IN  /\ Len(out) = Len(rest)
            /\ \A k \in 1 .. Len(out) :
                  /\ out[k].role \in {"user", "model"}
                  /\ OutTexts(out[k]) =
                        IF k = target
                        THEN <<"Be terse.\n\n" \o Head(OrigTexts(rest[k]))>>
                                 \o Tail(OrigTexts(rest[k]))
                        ELSE OrigTexts(rest[k])

\* C19: an image part whose URL is not of the form data:<mime>;base64,<data> is
\* left out of the output and no error is raised; the text parts and the
\* matching image parts of the message are kept in their order, an image part
\* as inline data with the mime type and the payload taken from its URL.
PngUrl == "data:image/png;base64,iVBORw0"
JpegUrl == "data:image/jpeg;base64,/9j/4AA"
Kept(item) == item.type = "text" \/ item.url \in {PngUrl, JpegUrl}
ExpectedPart(item, part) ==
    CASE item.type = "text" ->
            /\ part.kind = "text"
            /\ part.text \in {item.text, "Be terse.\n\n" \o item.text}
      [] item.url = PngUrl ->
            part = [kind |-> "inline_data", text |-> "", mime_type |-> "image/png",
                    data |-> "iVBORw0"]
      [] item.url = JpegUrl ->
            part = [kind |-> "inline_data", text |-> "", mime_type |-> "image/jpeg",
                    data |-> "/9j/4AA"]

C19_UnmatchedImageDropped ==
    GeminiDone =>
        LET rest == NonSystem(args.messages)
            out == result.contents
        IN  /\ Len(out) = Len(rest)
            /\ \A k \in 1 .. Len(rest) :
                  ~rest[k].content.isString =>
                      LET kept == SelectSeq(rest[k].content.items, Kept)
                      IN  /\ Len(out[k].parts) = Len(kept)
                          /\ \A i \in 1 .. Len(kept) :
                                ExpectedPart(kept[i], out[k].parts[i])

C19_Witness ==
    /\ GeminiDone
    /\ Len(args.messages) = 1
    /\ ~args.messages[1].content.isString
    /\ Len(args.messages[1].content.items) = 3
    /\ args.messages[1].content.items[1].url = "data:text/plain,hello"
    /\ Len(result.contents[1].parts) = 2
    /\ result.contents[1].parts[1].text = "What"
    /\ result.contents[1].parts[2].mime_type = "image/jpeg"

\* C20: the request sent to Anthropic holds no system-role message: the
\* messages are the caller's without the system-role ones, the system field is
\* their contents in order, joined by a line break, and there is no system
\* field when the caller's list has no system-role message.
RECURSIVE JoinLines(_)
JoinLines(texts) ==
    IF texts = <<>> THEN ""
    ELSE IF Len(texts) = 1 THEN texts[1]
    ELSE texts[1] \o "\n" \o JoinLines(Tail(texts))
SystemTexts(messages) ==
    LET system == SelectSeq(messages, IsSystem)
    IN  [i \in 1 .. Len(system) |-> system[i].content.text]

C20_SystemMessagesExtracted ==
    (result.fn = "anthropicRequest" /\ args.body.system = NoSystem) =>
        /\ result.request.messages = NonSystem(args.body.messages)
        /\ result.request.system = JoinLines(SystemTexts(args.body.messages))

\* C21: the Anthropic response transform gives finish_reason 'stop' for
\* stop_reason 'end_turn' and the stop_reason itself for every other value.
C21_AnthropicFinishReason ==
    result.fn = "anthropicResponse" =>
        /\ args.data.stop_reason = "end_turn" => result.response.finish_reason = "stop"
        /\ args.data.stop_reason # "end_turn" =>
              result.response.finish_reason = args.data.stop_reason
        /\ args.data.stop_reason = "max_tokens" =>
              result.response.finish_reason = "max_tokens"

C21_Witness ==
    /\ result.fn = "anthropicResponse"
    /\ args.data.stop_reason = "max_tokens"
    /\ result.response.finish_reason = "max_tokens"

\* C22: the Google response transform gives finish_reason 'stop' exactly when
\* the first candidate's finishReason is 'STOP' and 'length' otherwise: for
\* MAX_TOKENS, SAFETY, RECITATION, a candidate without finishReason and a
\* response without candidate.
C22_GoogleFinishReason ==
    result.fn = "googleResponse" =>
        /\ result.response.finish_reason = "stop" <=>
              (args.data.hasCandidate /\ args.data.finishReason = "STOP")
        /\ result.response.finish_reason \in {"stop", "length"}
        /\ (args.data.hasCandidate /\ args.data.finishReason \in {"SAFETY", "RECITATION"}) =>
              result.response.finish_reason = "length"

C22_Witness ==
    /\ result.fn = "googleResponse"
    /\ ~args.data.hasCandidate
    /\ args.data.finishReason = "STOP"
    /\ result.response.finish_reason = "length"

\* C23: when user_summaries.json can be read, getUserStats(userId) returns the
\* user's summary if the document holds a record for userId and not-found
\* otherwise, and GET /api/analytics/user/:userId answers 404 exactly when it
\* is not-found and the summary as persisted otherwise.
HoldsRecord(userId) == Parses(summaryFile) /\ summaryFile.doc[userId].exists
UserStatsCall(call) ==
    call.st = "done" /\ call.route = "/api/analytics/user" /\ call.saw # "ioerror"

C24_RecordsNeverRemoved ==
    Parses(summaryFile) =>
        \A u \in UserIds : maxReq[u] > 0 => summaryFile.doc[u].exists

\* C25: in every persisted document, for each user the endpointCounts, the
\* modelCounts and the providerCounts each add up to totalRequests, also when
\* concurrent executions have lost updates.
RECURSIVE SumOver(_, _)
SumOver(counts, keysLeft) ==
    IF keysLeft = {} THEN 0
    ELSE LET k == CHOOSE x \in keysLeft : TRUE
         IN  counts[k] + SumOver(counts, keysLeft \ {k})
Total(counts) == SumOver(counts, DOMAIN counts)

C25_CountsAddUp ==
    Parses(summaryFile) =>
        \A u \in UserIds :
            LET summary == summaryFile.doc[u]
            IN  /\ Total(summary.endpointCounts) = summary.totalRequests
                /\ Total(summary.modelCounts) = summary.totalRequests
                /\ Total(summary.providerCounts) = summary.totalRequests

C25_Witness ==
    /\ Parses(summaryFile)
    /\ Quiet
    /\ overlap
    /\ done["u1"].n = 3
    /\ ReqOf(summaryFile, "u1") = 2
    /\ Total(summaryFile.doc["u1"].endpointCounts) = 2

\* C26: with no failing append, a user's persisted totalRequests is never more
\* than the number of that user's lines in the daily log files, and equals it
\* once no logRequest execution is in flight.
LinesOf(u) ==
    Cardinality({<<d, i>> \in (DOMAIN logFiles) \X (1 .. MaxJobs) :
                    i <= Len(logFiles[d]) /\ logFiles[d][i].userId = u})

C26_SummaryMatchesLog ==
    \A u \in UserIds :
        /\ ReqOf(summaryFile, u) <= LinesOf(u)
        /\ Quiet => ReqOf(summaryFile, u) = LinesOf(u)

\* C27: a call to a protected /api route whose Authorization header is not
\* 'Bearer <API_SECRET>' is answered 401 and causes no outbound provider call,
\* no log append and no summary update; the analytics read endpoints answer
\* whatever the Authorization header is.
LacksSecret(call) ==
    call.st # "new" /\ call.route \in Routes \ PublicRoutes /\ call.auth # "Bearer secret"
NoneAuthorized ==
    \A c \in CallIds :
        calls[c].st = "new" \/ calls[c].route \in PublicRoutes \/ LacksSecret(calls[c])

C27_UnauthorizedRejected ==
    /\ \A c \in CallIds :
         LacksSecret(calls[c]) =>
            /\ calls[c].st = "done"
            /\ calls[c].delivered.status = 401
            /\ calls[c].outbound = 0
            /\ calls[c].reply = NoReply
            /\ calls[c].logCalls = 0
    /\ NoneAuthorized =>
            /\ jobs = EmptyBag
            /\ \A d \in DOMAIN logFiles : logFiles[d] = <<>>
            /\ fileVer = 0
            /\ ~Parses(summaryFile)
    /\ \A c \in CallIds :
         (calls[c].st = "done" /\ calls[c].route \in PublicRoutes) =>
            /\ calls[c].delivered.status \in {200, 404}
            /\ calls[c].delivered.kind # "unauthorized"

C27_Witness ==
    \E c \in CallIds :
        /\ LacksSecret(calls[c])
        /\ calls[c].auth = "Bearer wrong"
        /\ calls[c].route = "/api/chat/completions"
        /\ "openai" \in keys
        /\ calls[c].delivered.status = 401

\* C28: a user's lastSeen never moves backwards: in every persisted document
\* firstSeen <= lastSeen, no update replaces lastSeen by an earlier timestamp,
\* and once no logRequest execution is in flight lastSeen is the latest
\* timestamp among the user's recorded entries.
Recorded(u) == Parses(summaryFile) /\ summaryFile.doc[u].exists
TimestampsOf(u) ==
    {logFiles[d][i].timestamp : <<d, i>> \in
        {<<d, i>> \in (DOMAIN logFiles) \X (1 .. MaxJobs) :
            i <= Len(logFiles[d]) /\ logFiles[d][i].userId = u}}
LatestOf(u) == CHOOSE t \in TimestampsOf(u) : \A other \in TimestampsOf(u) : other <= t

C28_LastSeenIsLatest ==
    /\ [](\A u \in UserIds :
            Recorded(u) => summaryFile.doc[u].firstSeen <= summaryFile.doc[u].lastSeen)
    /\ [](\A u \in UserIds :
            Recorded(u) /\ Quiet => summaryFile.doc[u].lastSeen = LatestOf(u))
    /\ [][\A u \in UserIds :
            Recorded(u) /\ Parses(summaryFile') /\ summaryFile'.doc[u].exists
                => summaryFile.doc[u].lastSeen <= summaryFile'.doc[u].lastSeen]_vars

====
